---------------------------- MODULE Spec2Model ----------------------------
(***************************************************************************)
(* A model of src/lambda_function.py: the Lambda handler of the            *)
(* serverless to-do application and the DynamoDB table "Todos" it uses.    *)
(*                                                                         *)
(* A Python dict is a TLA+ record whose DOMAIN is the dict's key set, so   *)
(* that a missing key (KeyError) is a field outside the DOMAIN.  The table *)
(* is the set of its items; the table's primary key is the attribute id.   *)
(* The only shared state of concurrent invocations is the table; every     *)
(* call on the table (scan, put_item, update_item, get_item, delete_item)  *)
(* is one atomic step.                                                     *)
(***************************************************************************)
EXTENDS Integers, FiniteSets, Sequences, TLC

\* Size of the identifier space: ids are 1..NumIds.
NumIds == 2

\* Number of invocations in one run of the model.
MaxInvocations == 4

Ids == 1 .. NumIds

\* The handler invocations that can be in flight together.
Procs == {"a", "b"}

\* Titles a client supplies.
Titles == {"Buy milk", "Walk dog"}

VARIABLES
    table,      \* the items of the DynamoDB table Todos
    seen,       \* ids already drawn by uuid4 or already named by a client
    event,      \* event[p]: the event of invocation p
    pc,         \* pc[p]: position of invocation p in lambda_handler
    result,     \* result[p]: what invocation p returned or raised
    nops,       \* nops[p]: calls on the table made by invocation p so far
    table0,     \* the table when the invocations in flight were started
    ninv,       \* invocations started so far
    created     \* [id, title] of each item a POST created and no DELETE
                \* has removed since

vars == <<table, seen, event, pc, result, nops, table0, ninv, created>>

---------------------------------------------------------------------------
(* json *)

\* json.dumps: the text that encodes value v.  The text is kept as the
\* value it encodes under the tag json; it is not the value itself.
json_dumps(v) == [json |-> v]

\* json.loads: the value a text encodes.
json_loads(s) == s.json

---------------------------------------------------------------------------
(* The DynamoDB table *)

\* The stored item with the given key, as a set of zero or one items.
ItemsWithKey(tbl, key) == {x \in tbl : x.id = key.id}

\* A scan with a filter expression that keeps the open items only.
scan_open(tbl) == [Items |-> {x \in tbl : ~x.completed}]

\* table.scan(): the dict with every item under 'Items'.
scan(tbl) == [Items |-> tbl]

\* table.put_item(Item=item): insert, or replace the item with the same key.
put_item(tbl, item) == {x \in tbl : x.id # item.id} \cup {item}

\* An update written as a put of the key and the new attribute.
update_item_put(tbl, key, val) ==
    put_item(tbl, [id |-> key.id, completed |-> val])

\* An update with no key condition: it sets the attribute on every item.
update_item_all(tbl, key, val) ==
    {[a \in DOMAIN x \cup {"completed"} |->
         IF a = "completed" THEN val ELSE x[a]] : x \in tbl}
      \cup {[id |-> key.id, completed |-> val] : k \in {key} \ {[id |-> x.id] : x \in tbl}}

\* table.update_item(Key=key, UpdateExpression="SET completed = :val"):
\* sets the attribute on the item with that key and leaves its other
\* attributes alone; when no item has the key, DynamoDB adds a new item
\* holding the key and the attribute that was set.
update_item(tbl, key, val) ==
    IF ItemsWithKey(tbl, key) = {}
    THEN tbl \cup {[id |-> key.id, completed |-> val]}
    ELSE {IF x.id = key.id
          THEN [a \in DOMAIN x \cup {"completed"} |->
                   IF a = "completed" THEN val ELSE x[a]]
          ELSE x : x \in tbl}

\* table.get_item(Key=key): a dict with the item under 'Item', and without
\* the key 'Item' when no item has that key.
get_item(tbl, key) ==
    IF ItemsWithKey(tbl, key) = {}
    THEN [ResponseMetadata |-> "ok"]
    ELSE [ResponseMetadata |-> "ok",
          Item |-> CHOOSE x \in ItemsWithKey(tbl, key) : TRUE]

\* A delete that ignores the key.
delete_item_all(tbl, key) == {}

\* table.delete_item(Key=key): removes the item with that key, if any.
delete_item(tbl, key) == {x \in tbl : x.id # key.id}

---------------------------------------------------------------------------
(* Responses *)

\* The headers dict of response().
CorsHeaders ==
    [AccessControlAllowOrigin  |-> "*",
     AccessControlAllowMethods |-> "OPTIONS,GET,POST,PUT,DELETE",
     AccessControlAllowHeaders |-> "Content-Type"]

\* A response that leaves out the allow-headers header.
response_short(status, body) ==
    [statusCode |-> status,
     headers |-> [AccessControlAllowOrigin  |-> "*",
                  AccessControlAllowMethods |-> "OPTIONS,GET,POST,PUT,DELETE"],
     body |-> json_dumps(body)]

\* response(status, body)
response(status, body) ==
    [statusCode |-> status, headers |-> CorsHeaders, body |-> json_dumps(body)]

\* The dict returned for the CORS preflight, built in place.
PreflightResponse ==
    [statusCode |-> 200,
     headers |-> [AccessControlAllowOrigin  |-> "*",
                  AccessControlAllowMethods |-> "OPTIONS,GET,POST,PUT,DELETE",
                  AccessControlAllowHeaders |-> "Content-Type"],
     body |-> json_dumps([message |-> "CORS preflight OK"])]

\* An exception that leaves lambda_handler: no response dict is returned.
Raised(kind) == [errorType |-> kind]

\* No outcome yet.
Pending == [pending |-> TRUE]

\* An identifier generator that can repeat an id.
uuid4_any == Ids

\* str(uuid.uuid4()): a random 122-bit identifier; a collision with an id
\* that already exists anywhere has negligible probability, so the draw is
\* any id that was neither drawn nor named before.
uuid4 == Ids \ seen

---------------------------------------------------------------------------
(* Events *)

\* The JSON objects a client sends: each required field present or absent.
PostBodies == {[nothing |-> TRUE]} \cup {[title |-> t] : t \in Titles}

PutBodies ==
    {[nothing |-> TRUE]}
      \cup {[id |-> i] : i \in Ids}
      \cup {[completed |-> c] : c \in BOOLEAN}
      \cup {[id |-> i, completed |-> c] : i \in Ids, c \in BOOLEAN}

DeleteBodies == {[nothing |-> TRUE]} \cup {[id |-> i] : i \in Ids}

\* event['requestContext']['http']['method'] is kept as event.method;
\* PATCH stands for every method the handler does not know.
Events ==
    {[method |-> m] : m \in {"OPTIONS", "GET", "PATCH"}}
      \cup {[method |-> "POST", body |-> json_dumps(b)] : b \in PostBodies}
      \cup {[method |-> "PUT", body |-> json_dumps(b)] : b \in PutBodies}
      \cup {[method |-> "DELETE", body |-> json_dumps(b)] : b \in DeleteBodies}

\* The well-formed events that change the table.
WriteEvents ==
    {[method |-> "POST", body |-> json_dumps([title |-> t])] : t \in Titles}
      \cup {[method |-> "PUT", body |-> json_dumps([id |-> i, completed |-> c])] :
                i \in Ids, c \in BOOLEAN}
      \cup {[method |-> "DELETE", body |-> json_dumps([id |-> i])] : i \in Ids}

NoEvent == [method |-> "none"]

\* The ids an event names.
NamedIds(ev) ==
    IF "body" \in DOMAIN ev /\ "id" \in DOMAIN json_loads(ev.body)
    THEN {json_loads(ev.body).id}
    ELSE {}

InFlight(p) == pc[p] \in {"start", "PUT_get"}

Done(p) == pc[p] \in {"returned", "raised"}

---------------------------------------------------------------------------
(* State machine *)

Init ==
    /\ table = {}
    /\ seen = {}
    /\ event = [p \in Procs |-> NoEvent]
    /\ pc = [p \in Procs |-> "idle"]
    /\ result = [p \in Procs |-> Pending]
    /\ nops = [p \in Procs |-> 0]
    /\ table0 = {}
    /\ ninv = 0
    /\ created = {}

\* The runtime starts the invocations of S together, each with its event,
\* when no invocation is in flight.  A run of the model is a sequence of
\* single invocations, ended by at most one batch of concurrent ones.
Invoke(S, evs) ==
    /\ S # {}
    /\ \A p \in Procs : ~InFlight(p)
    /\ ninv + Cardinality(S) <= MaxInvocations
    /\ ninv' = IF Cardinality(S) = 1 THEN ninv + 1 ELSE MaxInvocations
    /\ LET named == UNION {NamedIds(evs[p]) : p \in S}
           posts == {p \in S : evs[p].method = "POST"}
       IN  /\ Cardinality(posts) <= Cardinality(Ids \ (seen \cup named))
           /\ seen' = seen \cup named
    /\ event' = [p \in Procs |-> IF p \in S THEN evs[p] ELSE NoEvent]
    /\ pc' = [p \in Procs |-> IF p \in S THEN "start" ELSE "idle"]
    /\ result' = [p \in Procs |-> Pending]
    /\ nops' = [p \in Procs |-> 0]
    /\ table0' = table
    /\ UNCHANGED <<table, created>>

\* One invocation at a time.
InvokeOne == \E p \in Procs : \E ev \in Events : Invoke({p}, [q \in {p} |-> ev])

\* Several invocations at once, each of them a POST, a PUT or a DELETE.
InvokeMany ==
    \E S \in {T \in SUBSET Procs : Cardinality(T) >= 2} :
        \E evs \in [S -> WriteEvents] : Invoke(S, evs)

Finish(p, res) ==
    /\ result' = [result EXCEPT ![p] = res]
    /\ pc' = [pc EXCEPT ![p] =
                 IF "statusCode" \in DOMAIN res THEN "returned" ELSE "raised"]

\* if method == 'OPTIONS'
OPTIONS(p) ==
    /\ pc[p] = "start"
    /\ event[p].method = "OPTIONS"
    /\ Finish(p, PreflightResponse)
    /\ UNCHANGED <<table, seen, event, nops, table0, ninv, created>>

\* if method == 'GET'
GET(p) ==
    /\ pc[p] = "start"
    /\ event[p].method = "GET"
    /\ Finish(p, response(200, scan(table).Items))
    /\ nops' = [nops EXCEPT ![p] = @ + 1]
    /\ UNCHANGED <<table, seen, event, table0, ninv, created>>

\* A POST that reads the item back after the put before it returns it.
POST_refetch(p) ==
    /\ pc[p] = "start"
    /\ event[p].method = "POST"
    /\ LET data == json_loads(event[p].body)
       IN  IF "title" \notin DOMAIN data
           THEN /\ Finish(p, Raised("KeyError"))
                /\ UNCHANGED <<table, seen, event, nops, table0, ninv, created>>
           ELSE \E u \in uuid4 :
                  LET item == [id |-> u, title |-> data.title,
                               completed |-> FALSE]
                  IN  /\ table' = put_item(table, item)
                      /\ seen' = seen \cup {u}
                      /\ created' = {c \in created : c.id # u}
                                       \cup {[id |-> u, title |-> data.title]}
                      /\ nops' = [nops EXCEPT ![p] = @ + 2]
                      /\ Finish(p, response(200,
                                   get_item(table', [id |-> u]).Item))
                      /\ UNCHANGED <<event, table0, ninv>>

\* elif method == 'POST'
POST(p) ==
    /\ pc[p] = "start"
    /\ event[p].method = "POST"
    /\ LET data == json_loads(event[p].body)
       IN  IF "title" \notin DOMAIN data
           THEN /\ Finish(p, Raised("KeyError"))
                /\ UNCHANGED <<table, seen, event, nops, table0, ninv, created>>
           ELSE \E u \in uuid4 :
                  LET item == [id |-> u, title |-> data.title,
                               completed |-> FALSE]
                  IN  /\ table' = put_item(table, item)
                      /\ seen' = seen \cup {u}
                      /\ created' = {c \in created : c.id # u}
                                       \cup {[id |-> u, title |-> data.title]}
                      /\ nops' = [nops EXCEPT ![p] = @ + 1]
                      /\ Finish(p, response(200, item))
                      /\ UNCHANGED <<event, table0, ninv>>

\* elif method == 'PUT', up to and including table.update_item
PUT_update(p) ==
    /\ pc[p] = "start"
    /\ event[p].method = "PUT"
    /\ LET data == json_loads(event[p].body)
       IN  IF "id" \notin DOMAIN data \/ "completed" \notin DOMAIN data
           THEN /\ Finish(p, Raised("KeyError"))
                /\ UNCHANGED <<table, seen, event, nops, table0, ninv, created>>
           ELSE /\ table' = update_item(table, [id |-> data.id], data.completed)
                /\ nops' = [nops EXCEPT ![p] = @ + 1]
                /\ pc' = [pc EXCEPT ![p] = "PUT_get"]
                /\ UNCHANGED <<seen, event, result, table0, ninv, created>>

\* A PUT that returns what the caller sent instead of what it read.
PUT_get_echo(p) ==
    /\ pc[p] = "PUT_get"
    /\ LET data == json_loads(event[p].body)
       IN  Finish(p, response(200, [id |-> data.id,
                                    completed |-> data.completed]))
    /\ nops' = [nops EXCEPT ![p] = @ + 1]
    /\ UNCHANGED <<table, seen, event, table0, ninv, created>>

\* table.get_item and the return of the PUT branch
PUT_get(p) ==
    /\ pc[p] = "PUT_get"
    /\ LET data == json_loads(event[p].body)
           updated == get_item(table, [id |-> data.id])
       IN  IF "Item" \notin DOMAIN updated
           THEN Finish(p, Raised("KeyError"))
           ELSE Finish(p, response(200, updated.Item))
    /\ nops' = [nops EXCEPT ![p] = @ + 1]
    /\ UNCHANGED <<table, seen, event, table0, ninv, created>>

\* elif method == 'DELETE'
DELETE(p) ==
    /\ pc[p] = "start"
    /\ event[p].method = "DELETE"
    /\ LET data == json_loads(event[p].body)
       IN  IF "id" \notin DOMAIN data
           THEN /\ Finish(p, Raised("KeyError"))
                /\ UNCHANGED <<table, seen, event, nops, table0, ninv, created>>
           ELSE /\ table' = delete_item(table, [id |-> data.id])
                /\ created' = {c \in created : c.id # data.id}
                /\ nops' = [nops EXCEPT ![p] = @ + 1]
                /\ Finish(p, response(200, [message |-> "Deleted",
                                            id |-> data.id]))
                /\ UNCHANGED <<seen, event, table0, ninv>>

\* else
Unsupported(p) ==
    /\ pc[p] = "start"
    /\ event[p].method \notin {"OPTIONS", "GET", "POST", "PUT", "DELETE"}
    /\ Finish(p, response(400, [error |-> "Unsupported method"]))
    /\ UNCHANGED <<table, seen, event, nops, table0, ninv, created>>

\* A call on the table fails (the store is unavailable): boto3 raises
\* ClientError, the handler does not catch it, the table is not changed.
StoreError(p) ==
    /\ \/ pc[p] = "start" /\ event[p].method = "GET"
       \/ pc[p] = "start" /\ event[p].method = "POST"
             /\ "title" \in DOMAIN json_loads(event[p].body)
       \/ pc[p] = "start" /\ event[p].method = "PUT"
             /\ {"id", "completed"} \subseteq DOMAIN json_loads(event[p].body)
       \/ pc[p] = "start" /\ event[p].method = "DELETE"
             /\ "id" \in DOMAIN json_loads(event[p].body)
       \/ pc[p] = "PUT_get"
    /\ Finish(p, Raised("ClientError"))
    /\ nops' = [nops EXCEPT ![p] = @ + 1]
    /\ UNCHANGED <<table, seen, event, table0, ninv, created>>

lambda_handler(p) ==
    \/ OPTIONS(p)
    \/ GET(p)
    \/ POST(p)
    \/ PUT_update(p)
    \/ PUT_get(p)
    \/ DELETE(p)
    \/ Unsupported(p)

\* Invocations one after another, the table always available.
Next == InvokeOne \/ \E p \in Procs : lambda_handler(p)

Spec == Init /\ [][Next]_vars

\* Invocations one after another, calls on the table may fail.
NextFail ==
    \/ InvokeOne
    \/ \E p \in Procs : lambda_handler(p)
    \/ \E p \in Procs : StoreError(p)

SpecFail == Init /\ [][NextFail]_vars

\* Concurrent invocations, the table always available.
NextConc ==
    \/ InvokeOne
    \/ InvokeMany
    \/ \E p \in Procs : lambda_handler(p)

SpecConc == Init /\ [][NextConc]_vars

---------------------------------------------------------------------------
(* lambda_handler run from start to end with no other invocation between *)
(* its calls on the table: the table it leaves and what it returns or    *)
(* raises.  u is the identifier uuid4 draws when the event is a POST.    *)

Handler(tbl, ev, u) ==
    IF ev.method = "OPTIONS" THEN [table |-> tbl, result |-> PreflightResponse]
    ELSE IF ev.method = "GET"
    THEN [table |-> tbl, result |-> response(200, scan(tbl).Items)]
    ELSE IF ev.method = "POST"
    THEN LET data == json_loads(ev.body)
         IN  IF "title" \notin DOMAIN data
             THEN [table |-> tbl, result |-> Raised("KeyError")]
             ELSE LET item == [id |-> u, title |-> data.title,
                               completed |-> FALSE]
                  IN  [table |-> put_item(tbl, item),
                       result |-> response(200, item)]
    ELSE IF ev.method = "PUT"
    THEN LET data == json_loads(ev.body)
         IN  IF "id" \notin DOMAIN data \/ "completed" \notin DOMAIN data
             THEN [table |-> tbl, result |-> Raised("KeyError")]
             ELSE LET t == update_item(tbl, [id |-> data.id], data.completed)
                      updated == get_item(t, [id |-> data.id])
                  IN  [table |-> t,
                       result |-> IF "Item" \notin DOMAIN updated
                                  THEN Raised("KeyError")
                                  ELSE response(200, updated.Item)]
    ELSE IF ev.method = "DELETE"
    THEN LET data == json_loads(ev.body)
         IN  IF "id" \notin DOMAIN data
             THEN [table |-> tbl, result |-> Raised("KeyError")]
             ELSE [table |-> delete_item(tbl, [id |-> data.id]),
                   result |-> response(200, [message |-> "Deleted",
                                             id |-> data.id])]
    ELSE [table |-> tbl, result |-> response(400, [error |-> "Unsupported method"])]

---------------------------------------------------------------------------
(* Properties *)

\* The parsed body of the event of invocation p.
Data(p) == json_loads(event[p].body)

\* The value encoded in the body of the response of invocation p.
Sent(p) == json_loads(result[p].body)

IdsOf(tbl) == {x.id : x \in tbl}

WellFormed(p) ==
    \/ event[p].method = "POST" /\ "title" \in DOMAIN Data(p)
    \/ event[p].method = "PUT" /\ {"id", "completed"} \subseteq DOMAIN Data(p)
    \/ event[p].method = "DELETE" /\ "id" \in DOMAIN Data(p)

\* C1: a POST with a title returns 200 with an item {id, title, completed}
\* whose id is the id of no item stored before, whose title is the supplied
\* one and whose completed is false; the table is then the previous table
\* plus exactly that item, and a scan of it includes the item.
C1_PostAddsFreshItem ==
    \A p \in Procs :
        (Done(p) /\ event[p].method = "POST" /\ WellFormed(p)) =>
            /\ pc[p] = "returned"
            /\ result[p].statusCode = 200
            /\ DOMAIN Sent(p) = {"id", "title", "completed"}
            /\ Sent(p).id \notin IdsOf(table0)
            /\ Sent(p).title = Data(p).title
            /\ Sent(p).completed = FALSE
            /\ table = table0 \cup {Sent(p)}
            /\ Sent(p) \in scan(table).Items

C1_Witness ==
    \E p \in Procs :
        /\ pc[p] = "returned" /\ event[p].method = "POST"
        /\ table0 # {}
        /\ Cardinality(table) = Cardinality(table0) + 1

\* C2: a PUT {id, completed} on a stored id, run with no other invocation
\* between its write and its read, returns 200 with the item as now
\* stored: completed is the supplied value, every other attribute (the
\* title as set at creation) is as before; no other item and no stored id
\* changes.
C2_PutSetsCompletedOnly ==
    \A p \in Procs :
        (Done(p) /\ event[p].method = "PUT" /\ WellFormed(p)
                 /\ Data(p).id \in IdsOf(table0)) =>
            /\ pc[p] = "returned"
            /\ result[p].statusCode = 200
            /\ Sent(p) \in table
            /\ Sent(p).id = Data(p).id
            /\ Sent(p).completed = Data(p).completed
            /\ \A old \in table0 :
                   IF old.id = Data(p).id
                   THEN /\ DOMAIN Sent(p) = DOMAIN old
                        /\ \A a \in DOMAIN old \ {"completed"} :
                               Sent(p)[a] = old[a]
                        /\ table = (table0 \ {old}) \cup {Sent(p)}
                   ELSE old \in table
            /\ IdsOf(table) = IdsOf(table0)
            /\ \A c \in created :
                   c.id = Data(p).id =>
                       "title" \in DOMAIN Sent(p) /\ Sent(p).title = c.title

C2_Witness ==
    \E p \in Procs :
        /\ pc[p] = "returned" /\ event[p].method = "PUT"
        /\ \E old \in table0 :
               /\ old.id = Data(p).id
               /\ "title" \in DOMAIN old
               /\ old.completed # Data(p).completed
        /\ Cardinality(table0) >= 2

\* C3: a DELETE {id} returns 200 with {message: "Deleted", id} whether or
\* not the id was stored; afterwards no stored item has the id, the items
\* with other ids are unchanged, and the table is unchanged when the id was
\* not stored.
C3_DeleteRemovesKey ==
    \A p \in Procs :
        (Done(p) /\ event[p].method = "DELETE" /\ WellFormed(p)) =>
            /\ pc[p] = "returned"
            /\ result[p].statusCode = 200
            /\ Sent(p) = [message |-> "Deleted", id |-> Data(p).id]
            /\ Data(p).id \notin IdsOf(scan(table).Items)
            /\ table = {x \in table0 : x.id # Data(p).id}
            /\ (Data(p).id \notin IdsOf(table0) => table = table0)

C3_Witness ==
    \E p \in Procs :
        /\ pc[p] = "returned" /\ event[p].method = "DELETE"
        /\ Data(p).id \in IdsOf(table0)
        /\ table # {}

\* The witness of the other case of C3: the id was not stored and other
\* items are.
C3_WitnessAbsent ==
    \E p \in Procs :
        /\ pc[p] = "returned" /\ event[p].method = "DELETE"
        /\ Data(p).id \notin IdsOf(table0)
        /\ table0 # {}

\* C4: a GET returns 200 with exactly the stored items, and GET, OPTIONS
\* and the unsupported methods leave the table as it was.
C4_GetReturnsAllAndReadsOnly ==
    \A p \in Procs :
        /\ (Done(p) /\ event[p].method = "GET") =>
               /\ pc[p] = "returned"
               /\ result[p].statusCode = 200
               /\ Sent(p) = table0
        /\ (Done(p) /\ event[p].method \notin {"POST", "PUT", "DELETE"}) =>
               table = table0

C4_Witness ==
    \E p \in Procs :
        /\ pc[p] = "returned" /\ event[p].method = "GET"
        /\ \E x, y \in table0 : x.completed /\ ~y.completed

\* C5: every response carries the three CORS headers; its status is 400
\* with body {error: "Unsupported method"} exactly when the method is none
\* of OPTIONS, GET, POST, PUT, DELETE and 200 otherwise; OPTIONS returns
\* {message: "CORS preflight OK"}.
C5_HeadersAndStatus ==
    \A p \in Procs :
        pc[p] = "returned" =>
            /\ DOMAIN result[p] = {"statusCode", "headers", "body"}
            /\ DOMAIN result[p].headers =
                   {"AccessControlAllowOrigin", "AccessControlAllowMethods",
                    "AccessControlAllowHeaders"}
            /\ result[p].headers.AccessControlAllowOrigin = "*"
            /\ result[p].headers.AccessControlAllowMethods =
                   "OPTIONS,GET,POST,PUT,DELETE"
            /\ result[p].headers.AccessControlAllowHeaders = "Content-Type"
            /\ IF event[p].method \in {"OPTIONS", "GET", "POST", "PUT", "DELETE"}
               THEN result[p].statusCode = 200
               ELSE /\ result[p].statusCode = 400
                    /\ Sent(p) = [error |-> "Unsupported method"]
            /\ (event[p].method = "OPTIONS" =>
                   Sent(p) = [message |-> "CORS preflight OK"])

C5_Witness ==
    \E p \in Procs :
        pc[p] = "returned" /\ event[p].method = "PATCH" /\ table # {}

\* C6: every stored item has a unique id and was put there by a POST: it
\* has the three fields id, title and completed and its title is the one
\* the POST that created it supplied; a PUT adds no item.
C6_ItemsComeFromPost ==
    /\ \A x, y \in table : x.id = y.id => x = y
    /\ \A x \in table :
           /\ DOMAIN x = {"id", "title", "completed"}
           /\ [id |-> x.id, title |-> x.title] \in created
    /\ \A p \in Procs :
           (Done(p) /\ event[p].method = "PUT") =>
               IdsOf(table) \subseteq IdsOf(table0)

\* C7: a PUT whose id matches no stored item ends as an unhandled failure
\* and returns no response, as does a POST, PUT or DELETE whose body lacks
\* a required field.
C7_PutOnMissingIdFails ==
    \A p \in Procs :
        Done(p) =>
            /\ (event[p].method = "PUT" /\ WellFormed(p)
                   /\ Data(p).id \notin IdsOf(table0)) => pc[p] = "raised"
            /\ (event[p].method \in {"POST", "PUT", "DELETE"}
                   /\ ~WellFormed(p)) => pc[p] = "raised"

\* C8 as stated: every invocation makes at most one call on the table, an
\* invocation that raised left the table as it was, and an invocation that
\* changed the table returned a response.
C8_AllOrNothing ==
    \A p \in Procs :
        /\ nops[p] <= 1
        /\ pc[p] = "raised" => table = table0
        /\ (Done(p) /\ table # table0) => pc[p] = "returned"

\* C8 as amended: every invocation but a PUT makes at most one call on the
\* table and a PUT at most two (update_item, then get_item); an invocation
\* that raised before its first call on the table succeeded left the table
\* as it was; a PUT that raised at its second call has applied its write;
\* an invocation that changed the table either returned a response or is
\* such a PUT.
C8_AllOrNothingButPutRead ==
    \A p \in Procs :
        /\ nops[p] <= IF event[p].method = "PUT" THEN 2 ELSE 1
        /\ (pc[p] = "raised" /\ nops[p] <= 1) => table = table0
        /\ (pc[p] = "raised" /\ nops[p] = 2) =>
               /\ event[p].method = "PUT"
               /\ table = update_item(table0, [id |-> Data(p).id],
                                      Data(p).completed)
        /\ (Done(p) /\ table # table0) =>
               \/ pc[p] = "returned"
               \/ event[p].method = "PUT" /\ nops[p] = 2

C8_Witness ==
    \E p \in Procs :
        /\ pc[p] = "raised" /\ event[p].method = "PUT" /\ nops[p] = 2
        /\ table # table0
        /\ table0 # {}

\* The invocations started together.
Batch == {p \in Procs : event[p] # NoEvent}

\* The id an invocation of a batch works on: the id in its body, and for
\* a POST the id it drew.
Target(p) ==
    IF event[p].method = "POST"
    THEN (IF pc[p] = "returned" THEN Sent(p).id ELSE 0)
    ELSE Data(p).id

\* The orders in which the invocations of B can run one after another.
Orders(B) ==
    {o \in [1 .. Cardinality(B) -> B] :
        \A i, j \in 1 .. Cardinality(B) : o[i] = o[j] => i = j}

\* The table and the results after the invocations run one after another
\* in the given order, each from start to end.
RECURSIVE Run(_, _, _)
Run(order, tbl, res) ==
    IF order = <<>>
    THEN [table |-> tbl, result |-> res]
    ELSE LET p == Head(order)
             h == Handler(tbl, event[p], Target(p))
         IN  Run(Tail(order), h.table, [res EXCEPT ![p] = h.result])

Outcome == [table |-> table, result |-> result]

NoResults == [p \in Procs |-> Pending]

\* C9: concurrent POST, PUT and DELETE invocations that work on different
\* ids end, under every interleaving of their calls on the table, with the
\* table and the responses they have when run one after another, in any
\* order.
C9_DifferentIdsIndependent ==
    ( /\ Cardinality(Batch) >= 2
      /\ \A p \in Batch : Done(p) /\ WellFormed(p)
      /\ \A p, q \in Batch : p # q => Target(p) # Target(q) )
        => \A o \in Orders(Batch) : Run(o, table0, NoResults) = Outcome

C9_Witness ==
    /\ Cardinality(Batch) >= 2
    /\ \A p \in Batch : Done(p)
    /\ \A p, q \in Batch : p # q => Target(p) # Target(q)
    /\ \E p, q \in Batch :
           /\ event[p].method = "PUT" /\ Data(p).id \in IdsOf(table0)
           /\ event[q].method \in {"POST", "DELETE"}
           /\ table # table0

\* C10 as stated: a PUT on an id stored at the start returns 200 under
\* every interleaving with concurrent PUT and DELETE invocations on the
\* same id, and the responses and the final table are those of some
\* sequential order of the invocations.
C10_PutAlwaysReadsItem ==
    ( /\ Cardinality(Batch) >= 2
      /\ \A p \in Batch : Done(p) /\ event[p].method \in {"PUT", "DELETE"}
      /\ \E i \in IdsOf(table0) : \A p \in Batch : Data(p).id = i )
        => /\ \A p \in Batch :
                  event[p].method = "PUT" =>
                      pc[p] = "returned" /\ result[p].statusCode = 200
           /\ \E o \in Orders(Batch) : Run(o, table0, NoResults) = Outcome

\* A PUT that raised was run together with a DELETE on the same id.
PutRaisedOnlyAfterDelete ==
    \A p \in Procs :
        (pc[p] = "raised" /\ event[p].method = "PUT" /\ WellFormed(p)) =>
            \E q \in Batch \ {p} :
                event[q].method = "DELETE" /\ Data(q).id = Data(p).id

\* The read of a PUT returns 200 with the item stored at that moment when
\* there is one, and raises when there is none.
PutReadStep ==
    \A p \in Procs :
        (pc[p] = "PUT_get" /\ pc'[p] # "PUT_get") =>
            IF Data(p).id \in IdsOf(table)
            THEN /\ pc'[p] = "returned"
                 /\ result'[p].statusCode = 200
                 /\ json_loads(result'[p].body) \in table
                 /\ json_loads(result'[p].body).id = Data(p).id
            ELSE pc'[p] = "raised"

\* C10 as amended: under every interleaving with concurrent PUT and DELETE
\* invocations on the same id, the read of a PUT returns 200 with the item
\* stored at the moment of the read when it finds one, and the PUT ends in
\* an unhandled failure when it finds none, which happens only when a
\* concurrent DELETE removed the item after the write.
C10_PutReturnsItemReadOrRaises ==
    [] PutRaisedOnlyAfterDelete /\ [][PutReadStep]_vars

C10_Witness ==
    \E p, q \in Batch :
        /\ event[p].method = "PUT" /\ WellFormed(p) /\ pc[p] = "raised"
        /\ event[q].method = "DELETE" /\ WellFormed(q)
        /\ Data(p).id \in IdsOf(table0)
        /\ Data(q).id = Data(p).id
        /\ pc[q] = "returned"

=============================================================================
